---------------------------- MODULE Spec2Model ----------------------------
(***************************************************************************)
(* A model of fastmcp's ResourceTemplate (src/fastmcp/resources/           *)
(* template.py): from_function, matches and create_resource.               *)
(*                                                                         *)
(* Python strings are sequences of one-character strings, so that          *)
(* re.findall, str.replace and the regular expression that matches()       *)
(* builds are computed character by character, as the code computes them.  *)
(***************************************************************************)
EXTENDS Integers, Sequences, FiniteSets, TLC

VARIABLES
    given,      \* the arguments of the from_function call, or None before it
    compiled,   \* the outcome of from_function: Uncompiled, a template or an error
    matched,    \* the last matches() call: its uri and its outcome, or None
    calls,      \* the create_resource calls: a sequence of frames
    invoked,    \* how many times the template's callable has been invoked
    reads       \* per create_resource call, the contents read from its Resource

vars == <<given, compiled, matched, calls, invoked, reads>>

None == "None"                 \* Python's None
Lambda == "<lambda>"           \* fn.__name__ of an anonymous function
NL == "\n"

(***************************************************************************)
(* Bounds of the model.                                                    *)
(***************************************************************************)
MaxSegs == 3        \* segments concatenated into a uri_template (compile)
MaxMatchSegs == 3   \* segments concatenated into a uri_template (matching)
MaxUriLen == 3      \* characters of a candidate URI (matching)
MaxCalls == 2       \* create_resource calls on the one template
MaxReads == 2       \* reads of one Resource

(***************************************************************************)
(* Characters.                                                             *)
(***************************************************************************)
WordChars == {"k", "v", "1"}           \* the \w characters of the model
Digits == {"1"}

IsWord(c) == c \in WordChars

\* str.isidentifier() on the characters of the model
IsIdentifier(s) ==
    /\ Len(s) >= 1
    /\ \A i \in 1..Len(s) : IsWord(s[i])
    /\ s[1] \notin Digits

\* s[i:].startswith(t)
HasAt(s, i, t) ==
    /\ i + Len(t) - 1 <= Len(s)
    /\ \A j \in 1..Len(t) : s[i + j - 1] = t[j]

\* s.find(c, i): the first index >= i holding c, 0 when there is none
IndexOf(s, i, c) ==
    LET hits == {j \in i..Len(s) : s[j] = c}
    IN  IF hits = {} THEN 0 ELSE CHOOSE j \in hits : \A h \in hits : j <= h

(***************************************************************************)
(* re.findall(r"{(\w+)}", uri_template), as the set the code makes of it.  *)
(* The scan is leftmost and non-overlapping; \w+ is greedy, and a shorter  *)
(* run cannot be followed by "}", so no backtracking succeeds.             *)
(***************************************************************************)
RECURSIVE WordRun(_, _)
WordRun(s, i) ==
    IF i <= Len(s) /\ IsWord(s[i]) THEN WordRun(s, i + 1) ELSE i - 1

RECURSIVE FindAll(_, _)
FindAll(s, i) ==
    IF i > Len(s) THEN {}
    ELSE IF s[i] = "{"
         THEN LET e == WordRun(s, i + 1)
              IN  IF e >= i + 1 /\ e + 1 <= Len(s) /\ s[e + 1] = "}"
                  THEN {SubSeq(s, i + 1, e)} \cup FindAll(s, e + 2)
                  ELSE FindAll(s, i + 1)
         ELSE FindAll(s, i + 1)

\* mutant: r"{(\w*)}", which also takes "{}" for a placeholder
RECURSIVE FindAllStar(_, _)
FindAllStar(s, i) ==
    IF i > Len(s) THEN {}
    ELSE IF s[i] = "{"
         THEN LET e == WordRun(s, i + 1)
              IN  IF e + 1 <= Len(s) /\ s[e + 1] = "}"
                  THEN {SubSeq(s, i + 1, e)} \cup FindAllStar(s, e + 2)
                  ELSE FindAllStar(s, i + 1)
         ELSE FindAllStar(s, i + 1)

UriParams_star(uri_template) == FindAllStar(uri_template, 1)

UriParams(uri_template) == FindAll(uri_template, 1)

(***************************************************************************)
(* str.replace(old, new) for a one-character old.                          *)
(***************************************************************************)
RECURSIVE Replace(_, _, _)
Replace(s, old, new) ==
    IF s = <<>> THEN <<>>
    ELSE (IF Head(s) = old THEN new ELSE <<Head(s)>>) \o Replace(Tail(s), old, new)

GroupOpen == <<"(", "?", "P", "<">>
GroupClose == <<">", "[", "^", "/", "]", "+", ")">>

\* f"^{pattern}$" with pattern = uri_template.replace("{", "(?P<").replace("}", ">[^/]+)")
Pattern(uri_template) ==
    <<"^">> \o Replace(Replace(uri_template, "{", GroupOpen), "}", GroupClose) \o <<"$">>

(***************************************************************************)
(* re's compilation of the pattern, for the characters the pattern can     *)
(* hold: literals, ".", "^", "$", "(?P<name>", "[^/]+" and ")".  The first *)
(* ">" after "(?P<" always comes from a replaced "}", so a group with a    *)
(* valid name always has the body "[^/]+" and its ")".                     *)
(***************************************************************************)
ReError == [err |-> TRUE, items |-> <<>>]

RECURSIVE Parse(_, _, _, _)
Parse(p, i, names, acc) ==
    IF i > Len(p) THEN [err |-> FALSE, items |-> acc]
    ELSE
      CASE p[i] = "(" ->
             IF ~HasAt(p, i, GroupOpen) THEN ReError
             ELSE LET e == IndexOf(p, i + 4, ">")
                      name == SubSeq(p, i + 4, e - 1)
                  IN  IF e = 0 THEN ReError              \* missing >, unterminated name
                      ELSE IF ~IsIdentifier(name) THEN ReError  \* missing / bad group name
                      ELSE IF name \in names THEN ReError       \* redefinition of group name
                      ELSE IF ~HasAt(p, e, GroupClose) THEN ReError
                      ELSE Parse(p, e + 7, names \cup {name},
                                 Append(acc, [t |-> "group", c |-> name]))
        [] p[i] = ")" -> ReError                         \* unbalanced parenthesis
        [] p[i] = "[" ->
             IF HasAt(p, i, <<"[", "^", "/", "]", "+">>)
             THEN Parse(p, i + 5, names, Append(acc, [t |-> "notslash", c |-> <<>>]))
             ELSE ReError
        [] p[i] = "." -> Parse(p, i + 1, names, Append(acc, [t |-> "any", c |-> <<>>]))
        [] p[i] = "^" -> Parse(p, i + 1, names, Append(acc, [t |-> "bol", c |-> <<>>]))
        [] p[i] = "$" -> Parse(p, i + 1, names, Append(acc, [t |-> "eol", c |-> <<>>]))
        [] OTHER -> Parse(p, i + 1, names, Append(acc, [t |-> "lit", c |-> <<p[i]>>]))

ReCompile(p) == Parse(p, 1, {}, <<>>)

(***************************************************************************)
(* re.match on the compiled items: backtracking, "[^/]+" greedy.  The      *)
(* result is Fail or the groupdict of the match.                           *)
(***************************************************************************)
\* Python values: a str (its characters) or an int
PyStr(s) == [py |-> "str", v |-> s, n |-> 0]
PyInt(n) == [py |-> "int", v |-> <<>>, n |-> n]

EmptyDict == [x \in {} |-> PyStr(<<>>)]
Fail == [ok |-> FALSE, env |-> EmptyDict]

RECURSIVE ReMatch(_, _, _, _, _)
ReMatch(items, j, uri, pos, env) ==
    IF j > Len(items) THEN [ok |-> TRUE, env |-> env]
    ELSE LET it == items[j]
             n == Len(uri)
         IN
      CASE it.t = "bol" -> IF pos = 1 THEN ReMatch(items, j + 1, uri, pos, env) ELSE Fail
        [] it.t = "eol" ->
             \* "$" matches at the end and just before a newline that ends the string
             IF pos = n + 1 \/ (pos = n /\ uri[n] = NL)
             THEN ReMatch(items, j + 1, uri, pos, env) ELSE Fail
        [] it.t = "lit" ->
             IF pos <= n /\ uri[pos] = it.c[1]
             THEN ReMatch(items, j + 1, uri, pos + 1, env) ELSE Fail
        [] it.t = "any" ->
             \* "." matches any character but a newline
             IF pos <= n /\ uri[pos] # NL
             THEN ReMatch(items, j + 1, uri, pos + 1, env) ELSE Fail
        [] OTHER ->
             LET lens == {m \in 1..(n - pos + 1) :
                            /\ \A q \in pos..(pos + m - 1) : uri[q] # "/"
                            /\ ReMatch(items, j + 1, uri, pos + m,
                                   IF it.t = "group"
                                   THEN (it.c :> PyStr(SubSeq(uri, pos, pos + m - 1))) @@ env
                                   ELSE env).ok}
                 best == CHOOSE m \in lens : \A o \in lens : o <= m
             IN  IF lens = {} THEN Fail
                 ELSE ReMatch(items, j + 1, uri, pos + best,
                          IF it.t = "group"
                          THEN (it.c :> PyStr(SubSeq(uri, pos, pos + best - 1))) @@ env
                          ELSE env)

(***************************************************************************)
(* ResourceTemplate.matches(uri): the groupdict, None, or re.error raised  *)
(* by re.match when the pattern does not compile.                          *)
(***************************************************************************)
Matches(uri_template, uri) ==
    LET re == ReCompile(Pattern(uri_template))
        m == ReMatch(re.items, 1, uri, 1, EmptyDict)
    IN  IF re.err THEN [kind |-> "raise", exc |-> "re.error", m |-> EmptyDict]
        ELSE IF m.ok THEN [kind |-> "dict", exc |-> None, m |-> m.env]
        ELSE [kind |-> "None", exc |-> None, m |-> EmptyDict]

(***************************************************************************)
(* Callables.  A callable is what inspect.signature and the call itself    *)
(* show of it: __name__, __doc__, its parameters (name -> default and      *)
(* declared type), whether TypeAdapter can derive its schema, and what a   *)
(* call returns: a value ("sync"), a coroutine object ("async", an async   *)
(* def) or an awaitable that is no coroutine ("future": a Future or Task). *)
(***************************************************************************)
K == <<"k">>
V == <<"v">>
ParamNames == {K, V}

DefaultValue == PyStr(<<"d">>)
Empty == [py |-> "inspect.Parameter.empty", v |-> <<>>, n |-> 0]

Truthy(x) == x \notin {None, ""}

FuncParams(fn) == DOMAIN fn.sig
RequiredParams(fn) == {p \in FuncParams(fn) : fn.sig[p].default = Empty}

\* TypeAdapter(fn).json_schema(): the declared type and required status of each parameter
JsonSchema(fn) ==
    [p \in FuncParams(fn) |-> [type |-> fn.sig[p].type, required |-> p \in RequiredParams(fn)]]

ValueError(msg) == [kind |-> "raise", cls |-> "Exception", type |-> "ValueError", msg |-> msg]

MsgLambda == <<"You must provide a name for lambda functions">>
MsgNoParams == <<"URI template must contain at least one parameter">>
MsgRequired(uri_params, required_params) ==
    <<"URI parameters ", uri_params,
      " must be a subset of the required function arguments: ", required_params>>
MsgUnknown(uri_params, func_params) ==
    <<"URI parameters ", uri_params,
      " must be a subset of the function arguments: ", func_params>>
MsgSchema == <<"TypeAdapter(fn).json_schema() failed">>

\* mutant: the subset test the message's wording suggests, the wrong way round
RequiredCovered_reversed(fn, uri_params) == uri_params \subseteq RequiredParams(fn)

\* the required-parameters check of from_function
RequiredCovered(fn, uri_params) == RequiredParams(fn) \subseteq uri_params

\* the placeholder check of from_function
PlaceholdersKnown(fn, uri_params) == uri_params \subseteq FuncParams(fn)

\* cls(...).  fn is the callable wrapped by validate_call: Bind is what the
\* wrapper does when the template's fn is called.  tags or set(): None and the
\* empty set both give the empty set, and the arguments hold {} for both.
Template(a, func_name) ==
    [kind |-> "template",
     uri_template |-> a.uri_template,
     name |-> func_name,
     description |-> IF Truthy(a.description) THEN a.description
                     ELSE IF Truthy(a.fn.doc) THEN a.fn.doc ELSE "",
     mime_type |-> IF Truthy(a.mime_type) THEN a.mime_type ELSE "text/plain",
     fn |-> a.fn,
     parameters |-> JsonSchema(a.fn),
     tags |-> a.tags]

SchemaError ==
    [kind |-> "raise", cls |-> "Exception", type |-> "PydanticSchemaError", msg |-> MsgSchema]

\* func_name = name or fn.__name__
FuncName(a) == IF Truthy(a.name) THEN a.name ELSE a.fn.name

\* mutant: the two parameter checks in the other order
from_function_swapped(a) ==
    LET fn == a.fn
        func_name == FuncName(a)
        uri_params == UriParams(a.uri_template)
    IN  IF func_name = Lambda THEN ValueError(MsgLambda)
        ELSE IF uri_params = {} THEN ValueError(MsgNoParams)
        ELSE IF ~PlaceholdersKnown(fn, uri_params)
             THEN ValueError(MsgUnknown(uri_params, FuncParams(fn)))
        ELSE IF ~RequiredCovered(fn, uri_params)
             THEN ValueError(MsgRequired(uri_params, RequiredParams(fn)))
        ELSE IF ~fn.schemaOk THEN SchemaError
        ELSE Template(a, func_name)

(***************************************************************************)
(* ResourceTemplate.from_function(fn, uri_template, name, description,     *)
(* mime_type, tags): the template, or the exception raised.                *)
(***************************************************************************)
from_function(a) ==
    LET fn == a.fn
        func_name == FuncName(a)
        uri_params == UriParams(a.uri_template)
    IN  IF func_name = Lambda THEN ValueError(MsgLambda)
        ELSE IF uri_params = {} THEN ValueError(MsgNoParams)
        ELSE IF ~RequiredCovered(fn, uri_params)
             THEN ValueError(MsgRequired(uri_params, RequiredParams(fn)))
        ELSE IF ~PlaceholdersKnown(fn, uri_params)
             THEN ValueError(MsgUnknown(uri_params, FuncParams(fn)))
        ELSE IF ~fn.schemaOk THEN SchemaError
        ELSE Template(a, func_name)

InitWith(Args) ==
    /\ given \in Args
    /\ compiled = [kind |-> "Uncompiled"]
    /\ matched = [kind |-> None]
    /\ calls = <<>>
    /\ invoked = 0
    /\ reads = <<>>

\* the classmethod call on the given arguments: no template exists before it,
\* one or none after it
FromFunction ==
    /\ compiled.kind = "Uncompiled"
    /\ compiled' = from_function(given)
    /\ UNCHANGED <<given, matched, calls, invoked, reads>>

\* template.matches(uri) on the compiled template
MatchesCall(uri) ==
    /\ compiled.kind = "template"
    /\ matched' = [kind |-> "called", uri |-> uri, out |-> Matches(compiled.uri_template, uri)]
    /\ UNCHANGED <<given, compiled, calls, invoked, reads>>

(***************************************************************************)
(* validate_call(fn), called with params as keyword arguments: they are    *)
(* bound to the parameters and coerced to their declared types before the  *)
(* body runs.                                                              *)
(* A str parameter takes a str; an int parameter takes an int or a str of  *)
(* digits.                                                                 *)
(***************************************************************************)
RECURSIVE StrToInt(_)
StrToInt(s) == IF s = <<>> THEN 0 ELSE 10 * StrToInt(SubSeq(s, 1, Len(s) - 1)) + 1

Coercible(type, val) ==
    IF type = "str" THEN val.py = "str"
    ELSE \/ val.py = "int"
         \/ /\ val.py = "str"
            /\ Len(val.v) >= 1
            /\ \A i \in 1..Len(val.v) : val.v[i] \in Digits

Coerce(type, val) ==
    IF type = "int" /\ val.py = "str" THEN PyInt(StrToInt(val.v)) ELSE val

NoExc == [kind |-> "none", cls |-> None, type |-> None, msg |-> <<>>, origin |-> None]

Raised(cls, type, msg, origin) ==
    [kind |-> "raise", cls |-> cls, type |-> type, msg |-> msg, origin |-> origin]

\* the arguments the body receives, or the ValidationError of the wrapper
Bind(fn, params) ==
    LET unexpected == DOMAIN params \ FuncParams(fn)
        missing == RequiredParams(fn) \ DOMAIN params
        bad == {p \in DOMAIN params \cap FuncParams(fn) : ~Coercible(fn.sig[p].type, params[p])}
    IN  IF unexpected # {} \/ missing # {}
        THEN [exc |-> Raised("Exception", "ValidationError",
                             <<"unexpected", unexpected, "missing", missing>>, "binding"),
              args |-> EmptyDict]
        ELSE IF bad # {}
        THEN [exc |-> Raised("Exception", "ValidationError", <<"invalid", bad>>, "coercion"),
              args |-> EmptyDict]
        ELSE [exc |-> NoExc,
              args |-> [p \in FuncParams(fn) |->
                          IF p \in DOMAIN params THEN Coerce(fn.sig[p].type, params[p])
                          ELSE fn.sig[p].default]]

(***************************************************************************)
(* What a call of the callable yields.  The n-th invocation of the body    *)
(* computes a value from its arguments and n (a callable need not be       *)
(* deterministic); an async def returns a coroutine object whose body runs *)
(* when it is awaited; a "future" callable returns an awaitable that is no *)
(* coroutine.  fn.raises tells what the body raises: nothing, an           *)
(* Exception, or a BaseException that is no Exception (SystemExit,         *)
(* KeyboardInterrupt, asyncio.CancelledError).                             *)
(***************************************************************************)
Value(args, n) == [kind |-> "value", args |-> args, nth |-> n]
Coroutine(args, n) == [kind |-> "coroutine", args |-> args, nth |-> n]
Future(args, n) == [kind |-> "future", args |-> args, nth |-> n]
NoResult == [kind |-> "unset", args |-> EmptyDict, nth |-> 0]

BodyRaises(fn) ==
    IF fn.raises = "Exception" THEN Raised("Exception", "ValueError", <<"Test error">>, "body")
    ELSE IF fn.raises = "BaseException"
         THEN Raised("BaseException",
                     IF fn.mode = "async" THEN "CancelledError" ELSE "SystemExit",
                     <<"exit">>, "body")
    ELSE NoExc

\* result = self.fn(...), the n-th invocation: the result, or the exception raised
CallFn(fn, params, n) ==
    LET b == Bind(fn, params)
    IN  IF b.exc.kind = "raise" THEN [exc |-> b.exc, result |-> NoResult, ran |-> FALSE]
        ELSE IF fn.mode = "async"
             THEN [exc |-> NoExc, result |-> Coroutine(b.args, n), ran |-> TRUE]
        ELSE IF fn.mode = "future"
             THEN [exc |-> NoExc, result |-> Future(b.args, n), ran |-> TRUE]
        ELSE IF BodyRaises(fn).kind = "raise"
             THEN [exc |-> BodyRaises(fn), result |-> NoResult, ran |-> TRUE]
        ELSE [exc |-> NoExc, result |-> Value(b.args, n), ran |-> TRUE]

\* await result, for a coroutine: the value, or the exception raised into the frame
Await(fn, coro) ==
    IF BodyRaises(fn).kind = "raise" THEN [exc |-> BodyRaises(fn), result |-> coro]
    ELSE [exc |-> NoExc, result |-> Value(coro.args, coro.nth)]

\* mutant: the coroutine test dropped, the result never awaited
IsCoroutine_never(result) == FALSE

\* inspect.iscoroutine(result)
IsCoroutine(result) == result.kind = "coroutine"

\* except Exception: a BaseException that is no Exception is not caught
Catches(e) == e.cls = "Exception"

ErrorPrefix == "Error creating resource from template: "

\* mutant: the handler re-raises what it caught
Reraise_native(e) == e

\* raise ValueError(f"Error creating resource from template: {e}")
Reraise(e) == Raised("Exception", "ValueError", <<ErrorPrefix, e.msg>>, "create_resource")

\* what leaves the try statement when e is raised inside it
Handle(e) == IF Catches(e) THEN Reraise(e) ELSE e

\* lambda: result
Closure(result) == [captured |-> result]

\* mutant: a closure that calls the template's callable again on every read
CallClosure_recompute(closure) ==
    [value |-> Value(closure.captured.args, invoked + 1), invocations |-> 1]

\* calling the closure: the captured result, and no invocation of the callable
CallClosure(closure) == [value |-> closure.captured, invocations |-> 0]

NoResource == [kind |-> None]

\* mutant: the Resource is given the template's pattern for its uri
FunctionResource_pattern(uri, self, result) ==
    [kind |-> "FunctionResource", uri |-> self.uri_template, name |-> self.name,
     description |-> self.description, mime_type |-> self.mime_type,
     fn |-> Closure(result), tags |-> self.tags]

\* FunctionResource(uri=uri, name=self.name, ..., fn=lambda: result, tags=self.tags)
FunctionResource(uri, self, result) ==
    [kind |-> "FunctionResource", uri |-> uri, name |-> self.name,
     description |-> self.description, mime_type |-> self.mime_type,
     fn |-> Closure(result), tags |-> self.tags]

(***************************************************************************)
(* create_resource.  A frame holds the locals of one call: uri, params and *)
(* result, where the call stands (pc), and what it gave its caller: a      *)
(* Resource or an exception.  uri and params are the call's arguments,     *)
(* cause is the exception raised inside the try statement, nth the ordinal *)
(* of the call's invocation of the callable (0: the body never ran).  Between two awaits a coroutine runs without   *)
(* interleaving, so a call is one step up to its await and one after it.   *)
(***************************************************************************)
Frame(uri, params, pc, nth, result, awaited, cause, error, resource) ==
    [uri |-> uri, params |-> params, pc |-> pc, nth |-> nth, result |-> result,
     awaited |-> awaited, cause |-> cause, error |-> error, resource |-> resource]

\* mutant: uri and result kept where every call sees them: the latest call's
OwnFrame_latest(id) == calls[Len(calls)]

\* the locals of call id
OwnFrame(id) == calls[id]

\* the frame when the try statement ends by an exception
Failing(f, e) ==
    [f EXCEPT !.pc = "raised", !.cause = e, !.error = Handle(e)]

\* the frame when the try statement returns the Resource
Returning(f, self, uri, result) ==
    [f EXCEPT !.pc = "returned", !.result = result,
              !.resource = FunctionResource(uri, self, result)]

CreateResource(uri, params) ==
    /\ compiled.kind = "template"
    /\ Len(calls) < MaxCalls
    /\ LET self == compiled
           r == CallFn(self.fn, params, invoked + 1)
           f == Frame(uri, params, "await", IF r.ran THEN invoked + 1 ELSE 0, r.result,
                      FALSE, NoExc, NoExc, NoResource)
       IN  /\ invoked' = IF r.ran THEN invoked + 1 ELSE invoked
           /\ calls' = Append(calls,
                  IF r.exc.kind = "raise" THEN Failing(f, r.exc)
                  ELSE IF IsCoroutine(r.result) THEN f
                  ELSE Returning(f, self, uri, r.result))
    /\ reads' = Append(reads, <<>>)
    /\ UNCHANGED <<given, compiled, matched>>

\* the awaited coroutine completes and the call goes on from line 110
Resume(id) ==
    /\ id \in 1..Len(calls)
    /\ calls[id].pc = "await"
    /\ LET self == compiled
           own == OwnFrame(id)
           f == [calls[id] EXCEPT !.awaited = TRUE]
           r == Await(self.fn, own.result)
       IN  calls' = [calls EXCEPT ![id] =
                        IF r.exc.kind = "raise" THEN Failing(f, r.exc)
                        ELSE Returning(f, self, own.uri, r.result)]
    /\ UNCHANGED <<given, compiled, matched, invoked, reads>>

RECURSIVE SumLen(_)
SumLen(ss) == IF ss = <<>> THEN 0 ELSE Len(Head(ss)) + SumLen(Tail(ss))

\* a read of the Resource call id returned: its content is what its fn returns
Read(id) ==
    /\ id \in 1..Len(calls)
    /\ calls[id].pc = "returned"
    /\ SumLen(reads) < MaxReads
    /\ LET c == CallClosure(calls[id].resource.fn)
       IN  /\ reads' = [reads EXCEPT ![id] = Append(@, c.value)]
           /\ invoked' = invoked + c.invocations
    /\ UNCHANGED <<given, compiled, matched, calls>>

(***************************************************************************)
(* Inputs of the main specification.                                       *)
(***************************************************************************)
TemplatesL ==
    {<<"{", "k", "}">>, <<"k", "/", "{", "k", "}">>, <<"{", "k", "}", "/", "{", "v", "}">>}

SignaturesL ==
    {(K :> [default |-> Empty, type |-> "str"]),
     (K :> [default |-> Empty, type |-> "int"]),
     (K :> [default |-> Empty, type |-> "str"]) @@ (V :> [default |-> DefaultValue, type |-> "int"])}

Behaviours ==
    {<<"sync", "never">>, <<"sync", "Exception">>, <<"sync", "BaseException">>,
     <<"async", "never">>, <<"async", "Exception">>, <<"async", "BaseException">>,
     <<"future", "never">>}

CallablesL ==
    {[name |-> "my_func", doc |-> "doc", sig |-> sg, schemaOk |-> TRUE,
      mode |-> b[1], raises |-> b[2]] : sg \in SignaturesL, b \in Behaviours}

ArgsL ==
    [fn : CallablesL, uri_template : TemplatesL, name : {"test"},
     description : {None}, mime_type : {None}, tags : {{"t"}}]

UrisL == {<<"k">>, <<"1">>, <<"k", "/", "1">>, <<"1", "/", "k">>}

DirectParams == {EmptyDict, (K :> PyInt(1))}

\* the params a caller passes with uri: what matches(uri) returned, or its own
ParamsFor(uri) ==
    IF compiled.kind # "template" THEN {}
    ELSE LET m == Matches(compiled.uri_template, uri)
         IN  (IF m.kind = "dict" THEN {m.m} ELSE {})
             \cup (IF uri = <<"k">> THEN DirectParams ELSE {})

Init == InitWith(ArgsL)

Next ==
    \/ FromFunction
    \/ \E uri \in UrisL : MatchesCall(uri)
    \/ \E uri \in UrisL : \E params \in ParamsFor(uri) : CreateResource(uri, params)
    \/ \E id \in 1..MaxCalls : Resume(id)
    \/ \E id \in 1..MaxCalls : Read(id)

Spec == Init /\ [][Next]_vars

(***************************************************************************)
(* Inputs of the compile specification: every template of at most MaxSegs  *)
(* segments, every signature over k and v, named and anonymous callables.  *)
(***************************************************************************)
Segs == {<<"{", "k", "}">>, <<"{", "v", "}">>, <<"/">>, <<".">>, <<"k">>, <<"{">>, <<"}">>}

RECURSIVE Flatten(_)
Flatten(ss) == IF ss = <<>> THEN <<>> ELSE Head(ss) \o Flatten(Tail(ss))

TemplatesUpTo(n) == {Flatten(ss) : ss \in UNION {[1..m -> Segs] : m \in 0..n}}

StrParam == [default : {Empty, DefaultValue}, type : {"str"}]
SignaturesC == UNION {[A -> StrParam] : A \in SUBSET ParamNames}

CallablesC ==
    [name : {"my_func", Lambda}, doc : {None}, sig : SignaturesC,
     schemaOk : BOOLEAN, mode : {"sync"}, raises : {"never"}]

ArgsC ==
    [fn : CallablesC, uri_template : TemplatesUpTo(MaxSegs), name : {None, "test", Lambda},
     description : {None}, mime_type : {None}, tags : {{}}]

InitCompile == InitWith(ArgsC)

NextCompile == FromFunction

SpecCompile == InitCompile /\ [][NextCompile]_vars

(***************************************************************************)
(* Inputs of the matching specification: a callable whose parameters k and *)
(* v are both optional, so that every pattern whose placeholders are among *)
(* k and v compiles; every template of at most MaxMatchSegs segments and   *)
(* every URI of at most MaxUriLen characters.                              *)
(***************************************************************************)
UriChars == {"k", "/", ".", NL}

Uris == UNION {[1..n -> UriChars] : n \in 0..MaxUriLen}

CallablesM ==
    {[name |-> "my_func", doc |-> None,
      sig |-> [p \in ParamNames |-> [default |-> DefaultValue, type |-> "str"]],
      schemaOk |-> TRUE, mode |-> "sync", raises |-> "never"]}

ArgsM ==
    [fn : CallablesM, uri_template : TemplatesUpTo(MaxMatchSegs), name : {"test"},
     description : {None}, mime_type : {None}, tags : {{}}]

InitMatch == InitWith(ArgsM)

NextMatch ==
    \/ FromFunction
    \/ \E uri \in Uris : MatchesCall(uri)

SpecMatch == InitMatch /\ [][NextMatch]_vars

(***************************************************************************)
(* What the claims about from_function speak of.  Placeholders is the set  *)
(* of {identifier} placeholders of a pattern, stated without the scan:     *)
(* every "{", run of one or more word characters, "}".                     *)
(***************************************************************************)
Placeholders(tpl) ==
    {SubSeq(tpl, i + 1, j - 1) : <<i, j>> \in
        {ij \in (1..Len(tpl)) \X (1..Len(tpl)) :
            /\ ij[2] > ij[1] + 1
            /\ tpl[ij[1]] = "{"
            /\ tpl[ij[2]] = "}"
            /\ \A q \in (ij[1] + 1)..(ij[2] - 1) : IsWord(tpl[q])}}

Called == compiled.kind # "Uncompiled"
P == Placeholders(given.uri_template)
R == {p \in DOMAIN given.fn.sig : given.fn.sig[p].default = Empty}
A == DOMAIN given.fn.sig

IsRequiredError == compiled.kind = "raise" /\ compiled.msg = MsgRequired(P, R)
IsUnknownError == compiled.kind = "raise" /\ compiled.msg = MsgUnknown(P, A)
IsMismatchError == IsRequiredError \/ IsUnknownError
IsNoParamsError == compiled.kind = "raise" /\ compiled.msg = MsgNoParams
IsLambdaError == compiled.kind = "raise" /\ compiled.msg = MsgLambda
Named == FuncName(given) # Lambda

\* C1 as stated: for every callable and every pattern with a non-empty placeholder
\* set P, from_function returns a template iff R \subseteq P \subseteq A, and fails
\* with the parameter-mismatch error in every other case.
C1_AsStated ==
    (Called /\ P # {}) =>
        IF R \subseteq P /\ P \subseteq A THEN compiled.kind = "template"
        ELSE IsMismatchError

\* C1 amended: when the resolved name (name or fn.__name__) is not "<lambda>" and P
\* is non-empty, a failure of R \subseteq P \subseteq A is always the
\* parameter-mismatch error, and from_function returns a template iff
\* R \subseteq P \subseteq A and the schema of the callable can be derived; an
\* anonymous callable with no name fails with the lambda-name error instead.
C1_Amended ==
    (Called /\ P # {}) =>
        /\ Named =>
              /\ (compiled.kind = "template") <=>
                    (R \subseteq P /\ P \subseteq A /\ given.fn.schemaOk)
              /\ ~(R \subseteq P /\ P \subseteq A) => IsMismatchError
              /\ (R \subseteq P /\ P \subseteq A /\ ~given.fn.schemaOk) =>
                    compiled = SchemaError
        /\ ~Named => IsLambdaError

\* C1 witness: a template compiled from a pattern naming a required and an
\* optional parameter
C1_Witness ==
    /\ compiled.kind = "template"
    /\ P = {K, V}
    /\ R = {K}

\* C2 as stated: a pattern with zero placeholders always fails with the
\* invalid-pattern error, whatever the callable (named or anonymous) and the
\* other arguments.
C2_AsStated == (Called /\ P = {}) => IsNoParamsError

\* C2 amended: a pattern with zero placeholders always fails: with the
\* invalid-pattern error when the resolved name is not "<lambda>", and with the
\* lambda-name error (checked first) when it is.
C2_Amended ==
    (Called /\ P = {}) =>
        /\ compiled.kind = "raise"
        /\ Named => IsNoParamsError
        /\ ~Named => IsLambdaError

\* C2 witness: a named callable with parameters, a pattern of literal text and
\* stray braces but no placeholder, rejected as an invalid pattern
C2_Witness ==
    /\ IsNoParamsError
    /\ Len(given.uri_template) = 3
    /\ \E i \in 1..3 : given.uri_template[i] = "{"
    /\ A # {}

\* C10 as stated: for a non-empty P, whenever a required parameter is missing from
\* P the failure is the required-arguments one (even if P also names an unknown
\* parameter), and the function-arguments failure is raised only when every
\* required parameter is in P and some placeholder is no parameter.
C10_AsStated ==
    (Called /\ P # {}) =>
        /\ ~(R \subseteq P) => IsRequiredError
        /\ IsUnknownError => (R \subseteq P /\ ~(P \subseteq A))

\* C10 amended: the same, for a resolved name that is not "<lambda>" (the name
\* check comes before both parameter checks).
C10_Amended ==
    (Called /\ P # {} /\ Named) =>
        /\ ~(R \subseteq P) => IsRequiredError
        /\ (R \subseteq P /\ ~(P \subseteq A)) => IsUnknownError
        /\ IsUnknownError => (R \subseteq P /\ ~(P \subseteq A))

\* C10 witness: a required parameter is missing and a placeholder is unknown, and
\* the failure is the required-arguments one
C10_Witness ==
    /\ IsRequiredError
    /\ ~(R \subseteq P)
    /\ ~(P \subseteq A)


(***************************************************************************)
(* What the claims about matches speak of.  ExactMatch is the matching the *)
(* claims describe: the URI, split at the boundaries of the pattern's      *)
(* placeholders, equals every literal character and gives every            *)
(* placeholder one or more characters other than "/".                      *)
(***************************************************************************)
PlaceholderEnds(tpl, i) ==
    {j \in (i + 2)..Len(tpl) :
        /\ tpl[i] = "{"
        /\ tpl[j] = "}"
        /\ \A q \in (i + 1)..(j - 1) : IsWord(tpl[q])}

RECURSIVE ExactFrom(_, _, _, _)
ExactFrom(tpl, i, uri, pos) ==
    IF i > Len(tpl) THEN pos = Len(uri) + 1
    ELSE IF PlaceholderEnds(tpl, i) # {}
         THEN LET j == CHOOSE e \in PlaceholderEnds(tpl, i) : TRUE
              IN  \E m \in 1..(Len(uri) - pos + 1) :
                     /\ \A q \in pos..(pos + m - 1) : uri[q] # "/"
                     /\ ExactFrom(tpl, j + 1, uri, pos + m)
         ELSE /\ pos <= Len(uri)
              /\ uri[pos] = tpl[i]
              /\ ExactFrom(tpl, i + 1, uri, pos + 1)

ExactMatch(tpl, uri) == ExactFrom(tpl, 1, uri, 1)

MatchReturned == matched.kind = "called" /\ matched.out.kind # "raise"

\* C3 as stated: matches(uri) returns a mapping iff the URI equals every literal
\* segment character for character and gives every placeholder one or more
\* non-"/" characters; any other URI (extra leading or trailing content, a
\* differing literal character) yields None.  Stated for the calls that return.
C3_AsStated ==
    MatchReturned =>
        IF ExactMatch(given.uri_template, matched.uri)
        THEN matched.out.kind = "dict"
        ELSE matched.out.kind = "None"

\* C4 as stated: on a template from_function accepted, matches(uri) never raises:
\* its outcome is None or a mapping whose keys are exactly the placeholder names,
\* with raw string values.
C4_AsStated ==
    matched.kind = "called" =>
        /\ matched.out.kind \in {"None", "dict"}
        /\ matched.out.kind = "dict" =>
              /\ DOMAIN matched.out.m = P
              /\ \A n \in DOMAIN matched.out.m : matched.out.m[n].py = "str"

(***************************************************************************)
(* What the claims about create_resource speak of.                         *)
(***************************************************************************)
Ids == 1..Len(calls)
Finished(f) == f.pc \in {"returned", "raised"}

\* call id passed the mapping that matches(uri) returns for its uri
RoundTrip(f) ==
    LET m == Matches(compiled.uri_template, f.uri)
    IN  m.kind = "dict" /\ f.params = m.m

CopiesTemplate(f) ==
    /\ f.resource.kind = "FunctionResource"
    /\ f.resource.uri = f.uri
    /\ f.resource.name = compiled.name
    /\ f.resource.description = compiled.description
    /\ f.resource.mime_type = compiled.mime_type
    /\ f.resource.tags = compiled.tags

\* C5 as stated: when matches(uri) returns m, create_resource(uri, m) succeeds
\* unless the callable's own body fails, and the Resource has the input uri and
\* the template's name, description, mime_type and tags.
C5_AsStated ==
    \A id \in Ids :
        (RoundTrip(calls[id]) /\ Finished(calls[id]) /\ calls[id].cause.origin # "body") =>
            /\ calls[id].pc = "returned"
            /\ CopiesTemplate(calls[id])

\* C5 amended: when matches(uri) returns m, create_resource(uri, m) never fails to
\* bind m (its keys cover the required parameters and name only parameters); it
\* succeeds unless the callable's body fails or the coercion of a captured string
\* to the parameter's declared type fails, and the Resource then has the input uri
\* and the template's name, description, mime_type and tags.
C5_Amended ==
    \A id \in Ids :
        (RoundTrip(calls[id]) /\ Finished(calls[id])) =>
            /\ calls[id].cause.origin # "binding"
            /\ calls[id].cause.origin \notin {"body", "coercion"} =>
                  /\ calls[id].pc = "returned"
                  /\ CopiesTemplate(calls[id])

\* C5 witness: the captured string "1" is coerced to the int 1 and the Resource
\* of a round trip is returned
C5_Witness ==
    \E id \in Ids :
        /\ RoundTrip(calls[id])
        /\ calls[id].pc = "returned"
        /\ calls[id].params[K] = PyStr(<<"1">>)
        /\ calls[id].result.args[K] = PyInt(1)

Wrapped(e) ==
    [kind |-> "raise", cls |-> "Exception", type |-> "ValueError",
     msg |-> <<ErrorPrefix, e.msg>>, origin |-> "create_resource"]

\* C6 as stated: any exception raised by the callable during create_resource
\* (synchronously, while awaited, or by argument coercion) reaches the caller as
\* the ValueError "Error creating resource from template: ..." holding the cause's
\* text, never as the native exception, and no Resource is returned.
C6_AsStated ==
    \A id \in Ids :
        calls[id].cause.kind = "raise" =>
            /\ calls[id].pc = "raised"
            /\ calls[id].error = Wrapped(calls[id].cause)
            /\ calls[id].resource = NoResource

\* C6 amended: the same for every exception that is an Exception; a BaseException
\* that is no Exception (SystemExit, KeyboardInterrupt, asyncio.CancelledError)
\* reaches the caller as it is.  Either way no Resource is returned.
C6_Amended ==
    \A id \in Ids :
        calls[id].cause.kind = "raise" =>
            /\ calls[id].pc = "raised"
            /\ calls[id].resource = NoResource
            /\ calls[id].cause.cls = "Exception" =>
                  calls[id].error = Wrapped(calls[id].cause)
            /\ calls[id].cause.cls # "Exception" => calls[id].error = calls[id].cause

\* C6 witness: an exception raised while the coroutine was awaited reached the
\* caller wrapped
C6_Witness ==
    \E id \in Ids :
        /\ calls[id].awaited
        /\ calls[id].cause.origin = "body"
        /\ calls[id].error = Wrapped(calls[id].cause)

Content(f) == f.resource.fn.captured

\* C8 as stated: when the callable's result is an in-flight asynchronous
\* computation, the Resource is returned only after it completed and its content is
\* the completed value, never the pending computation; a synchronous callable is
\* not suspended on.
C8_AsStated ==
    \A id \in Ids :
        calls[id].pc = "returned" =>
            /\ Content(calls[id]).kind = "value"
            /\ (compiled.fn.mode \in {"async", "future"}) <=> calls[id].awaited

\* C8 amended: when the callable's result is a coroutine object, the call is
\* suspended at the await, the Resource is returned only after the coroutine
\* completed, and its content is the completed value; any other result, an
\* awaitable that is no coroutine (a Future, a Task) included, is not awaited and
\* is the content as the callable returned it.
C8_Amended ==
    \A id \in Ids :
        /\ calls[id].pc = "await" => compiled.fn.mode = "async"
        /\ calls[id].pc = "returned" =>
              /\ (compiled.fn.mode = "async") <=> calls[id].awaited
              /\ compiled.fn.mode = "async" =>
                    Content(calls[id]) = Value(calls[id].result.args, calls[id].nth)
              /\ compiled.fn.mode = "sync" => Content(calls[id]).kind = "value"
              /\ compiled.fn.mode = "future" => Content(calls[id]).kind = "future"

\* C8 witness: a Resource returned after the await of an asynchronous callable
C8_Witness ==
    \E id \in Ids :
        /\ calls[id].pc = "returned"
        /\ calls[id].awaited
        /\ Content(calls[id]).kind = "value"

\* what create_resource(uri, params) gives when it runs alone and its call of the
\* callable is the n-th
Alone(uri, params, n) ==
    LET r == CallFn(compiled.fn, params, n)
        a == Await(compiled.fn, r.result)
    IN  IF r.exc.kind = "raise"
        THEN [pc |-> "raised", error |-> Handle(r.exc), resource |-> NoResource]
        ELSE IF ~IsCoroutine(r.result)
        THEN [pc |-> "returned", error |-> NoExc,
              resource |-> FunctionResource(uri, compiled, r.result)]
        ELSE IF a.exc.kind = "raise"
        THEN [pc |-> "raised", error |-> Handle(a.exc), resource |-> NoResource]
        ELSE [pc |-> "returned", error |-> NoExc,
              resource |-> FunctionResource(uri, compiled, a.result)]

Outcome(f) == [pc |-> f.pc, error |-> f.error, resource |-> f.resource]

IndependentCalls ==
    \A id \in Ids :
        /\ Finished(calls[id]) =>
              Outcome(calls[id]) = Alone(calls[id].uri, calls[id].params, calls[id].nth)
        /\ calls[id].pc = "returned" =>
              /\ calls[id].resource.uri = calls[id].uri
              /\ Content(calls[id]).nth = calls[id].nth

\* C9: under every interleaving of matches and create_resource calls on one
\* template, the template keeps its construction-time fields, and every call's
\* outcome is the one it has when run alone: its Resource carries its own uri and
\* the result of its own invocation, whatever the other calls do.
C9_Isolation ==
    /\ []IndependentCalls
    /\ [][compiled.kind = "template" => compiled' = compiled]_vars

\* C9 witness: a later call has returned after its own await while an earlier call
\* on another uri is still suspended
C9_Witness ==
    /\ Len(calls) >= 2
    /\ calls[1].pc = "await"
    /\ calls[2].pc = "returned"
    /\ calls[2].awaited
    /\ calls[1].uri # calls[2].uri
=============================================================================
